---------------------------- MODULE Spec2Model ----------------------------
(***************************************************************************)
(* A model of LibraryCommon: the Result<T, E> container (src/src/Result.h),*)
(* its void specialization, and the propagation macros of                  *)
(* src/src/LibraryCommon.h.                                                *)
(*                                                                         *)
(* A Result object is a record of its data members (value_, error_,        *)
(* hasValue_) together with its two template arguments T and E.  The void  *)
(* specialization has no value_ member.  Error identifiers are the         *)
(* numeric values of the enumeration E.                                    *)
(***************************************************************************)
EXTENDS Integers, Sequences, FiniteSets, TLC

\* ------------------------------------------------------------------ bounds

\* Success values range over 0..MaxValue.
MaxValue == 3

\* ------------------------------------------------- the error enumerations

OK == 0
INVALID_PARAMETER == 4
TIMEOUT == 30

\* enum class TestError { NONE = 0, DIVIDE_BY_ZERO, OVERFLOW, UNDERFLOW }
TestError == {0, 1, 2, 3}

\* The error enumerations a Result is instantiated with.
ErrorTypes == {"ErrorCode", "TestError"}

\* The identifiers of E that the operations are exercised with (the success
\* identifier included: nothing in the code rejects it).
ErrorIds(E) == IF E = "ErrorCode" THEN {OK, INVALID_PARAMETER, TIMEOUT} ELSE TestError

Values == 0 .. MaxValue

\* static_cast<E>(0)
StaticCastZero(E) == 0

\* value_() : value-initialisation of T (T is an integer type here)
ValueInit == 0

\* The state of a variable that holds no object.
NoObject == [T |-> "none"]

\* -------------------------------------------------- Result<T, E>, T != void

\* explicit Result(const T& value)
Result_from_value_Zeroed(E, v) ==
    [T |-> "int", E |-> E, value_ |-> ValueInit, error_ |-> StaticCastZero(E), hasValue_ |-> TRUE]

Result_from_value(E, v) ==
    [T |-> "int", E |-> E, value_ |-> v, error_ |-> StaticCastZero(E), hasValue_ |-> TRUE]

\* explicit Result(T&& value)
Result_from_rvalue(E, v) ==
    [T |-> "int", E |-> E, value_ |-> v, error_ |-> StaticCastZero(E), hasValue_ |-> TRUE]

\* explicit Result(E error)
Result_from_error_Zeroed(E, e) ==
    [T |-> "int", E |-> E, value_ |-> ValueInit, error_ |-> StaticCastZero(E), hasValue_ |-> FALSE]

Result_from_error_ValueFromError(E, e) ==
    [T |-> "int", E |-> E, value_ |-> e, error_ |-> e, hasValue_ |-> FALSE]

Result_from_error(E, e) ==
    [T |-> "int", E |-> E, value_ |-> ValueInit, error_ |-> e, hasValue_ |-> FALSE]

\* Result(SuccessTag, const T& value)
Result_SuccessTag(E, v) ==
    [T |-> "int", E |-> E, value_ |-> v, error_ |-> StaticCastZero(E), hasValue_ |-> TRUE]

\* Result(ErrorTag, E error)
Result_ErrorTag(E, e) ==
    [T |-> "int", E |-> E, value_ |-> ValueInit, error_ |-> e, hasValue_ |-> FALSE]

\* static Result ok(const T& value)
Result_ok(E, v) == Result_from_value(E, v)

\* static Result ok(T&& value)
Result_ok_rvalue(E, v) == Result_from_rvalue(E, v)

\* static Result error(E error)
Result_error(E, e) == Result_from_error(E, e)

\* ------------------------------------------------------- Result<void, E>

\* Result()
ResultVoid_default(E) ==
    [T |-> "void", E |-> E, error_ |-> StaticCastZero(E), hasValue_ |-> TRUE]

\* explicit Result(E error)
ResultVoid_from_error(E, e) ==
    [T |-> "void", E |-> E, error_ |-> e, hasValue_ |-> FALSE]

\* explicit Result(SuccessTag)
ResultVoid_SuccessTag(E) ==
    [T |-> "void", E |-> E, error_ |-> StaticCastZero(E), hasValue_ |-> TRUE]

\* Result(ErrorTag, E error)
ResultVoid_ErrorTag(E, e) ==
    [T |-> "void", E |-> E, error_ |-> e, hasValue_ |-> FALSE]

\* static Result ok()
ResultVoid_ok(E) == ResultVoid_default(E)

\* static Result error(E error)
ResultVoid_error(E, e) == ResultVoid_from_error(E, e)

\* ---------------------------------------------------------- free helpers

\* makeOk<T, E>(T&& value)
makeOk(E, v) == Result_ok_rvalue(E, v)

\* makeOk<E>()
makeOkVoid(E) == ResultVoid_ok(E)

\* makeError<T, E>(E error)
makeError(E, e) == Result_error(E, e)

\* ------------------------------------------------------- query surface

\* bool isOk() const
isOk(self) == self.hasValue_

\* bool isError() const
isError_ByCode(self) == self.error_ # StaticCastZero(self.E)

isError(self) == ~self.hasValue_

\* explicit operator bool() const
operator_bool(self) == self.hasValue_

\* T& value() & / const T& value() const& : returns the member, unchecked.
value(self) == [outcome |-> "returned", ret |-> self.value_]

\* E error() const : returns the member, unchecked.
error(self) == [outcome |-> "returned", ret |-> self.error_]

\* T valueOr(const T& defaultValue) const&
valueOr_Swapped(self, defaultValue) ==
    [outcome |-> "returned", ret |-> IF self.hasValue_ THEN defaultValue ELSE self.value_]

valueOr(self, defaultValue) ==
    [outcome |-> "returned", ret |-> IF self.hasValue_ THEN self.value_ ELSE defaultValue]


\* ------------------------------------------------------------ combinators

\* The callables handed to map and andThen.
\* [](int x) { return x * 2; }   (test_result.cpp)
double(x) == x * 2

\* Any other callable F of map's template parameter: here x -> x + 1.
succ(x) == x + 1

MapCallables == {"double", "succ"}

\* f(value_) for the callable named f
Invoke(f, x) == IF f = "double" THEN double(x) ELSE succ(x)

\* [](int x) -> Result<int> { if (x == 0) return error(INVALID_PARAMETER);
\*                            return ok(100 / x); }
\* (for a caller's own enumeration the error is its DIVIDE_BY_ZERO = 1)
divide(E, x) ==
    IF x = 0
    THEN Result_error(E, IF E = "ErrorCode" THEN INVALID_PARAMETER ELSE 1)
    ELSE Result_ok_rvalue(E, 100 \div x)

\* map(f): res is the returned Result, calls the number of invocations of f.
map_EagerCall(self, f) ==
    IF self.hasValue_
    THEN [res |-> Result_ok_rvalue(self.E, Invoke(f, self.value_)), calls |-> 1]
    ELSE [res |-> Result_error(self.E, self.error_), calls |-> 1]

map(self, f) ==
    IF self.hasValue_
    THEN [res |-> Result_ok_rvalue(self.E, Invoke(f, self.value_)), calls |-> 1]
    ELSE [res |-> Result_error(self.E, self.error_), calls |-> 0]

\* andThen(f): res is the returned Result, calls the number of invocations of f.
andThen_Wrapped(self) ==
    IF self.hasValue_
    THEN [res |-> Result_ok_rvalue(self.E, divide(self.E, self.value_).value_), calls |-> 1]
    ELSE [res |-> Result_error(self.E, self.error_), calls |-> 0]

andThen(self) ==
    IF self.hasValue_
    THEN [res |-> divide(self.E, self.value_), calls |-> 1]
    ELSE [res |-> Result_error(self.E, self.error_), calls |-> 0]

\* ------------------------------------------------ implicit copy and move

\* The implicitly defined copy constructor / copy assignment: member-wise copy.
Copy(src) == src

Move_ErrorLeftBehind(src) == [src EXCEPT !.error_ = StaticCastZero(src.E)]

\* The implicitly defined move constructor / move assignment: member-wise
\* move; what the destination holds.
Move(src) == src

\* What a member-wise move leaves in the source: error_ and hasValue_ are
\* scalars and keep their value; a moved-from T holds some valid value.
MovedFrom(src) ==
    IF src.T = "int"
    THEN {[src EXCEPT !.value_ = v] : v \in Values}
    ELSE {src}

\* ----------------------------------------------------------------- state

VARIABLES
    r,      \* the Result object under test (NoObject before construction)
    s,      \* a second Result object of the same scope: the target of copy, move
            \* and the combinators (NoObject until one of them has run)
    last,   \* the last operation that built or changed r or s
    obs,    \* the last accessor or combinator call and what it returned
    prog,   \* the enclosing operation that uses a propagation macro
    frame,  \* its activation: where it stands and what it has produced
    code,   \* the ErrorCode under test (NoCode before one is obtained)
    answer, \* what errorCodeToString, isSuccess and isError returned for it
    guards, \* the ScopeGuard objects built so far, in construction order
    cleanup,    \* the guards whose destructor has invoked the cleanup function
    released    \* dismiss() has been called on the guard responsible for it

objVars == <<r, s, last, obs>>

idiomVars == <<prog, frame>>

codeVars == <<code, answer>>

guardVars == <<guards, cleanup, released>>

NoObs == [op |-> "none"]

SameType(a, b) == a.T = b.T /\ a.E = b.E

InValues(x) == x.T = "int" => x.value_ \in Values

\* The ways the code offers to build a success / an error Result<int, E>.
OkPaths == {"Result(const T&)", "Result(T&&)", "Result(SuccessTag, const T&)",
            "ok(const T&)", "ok(T&&)", "makeOk"}
ErrorPaths == {"Result(E)", "Result(ErrorTag, E)", "error", "makeError"}
VoidOkPaths == {"Result()", "Result(SuccessTag)", "ok", "makeOk"}
VoidErrorPaths == {"Result(E)", "Result(ErrorTag, E)", "error"}

BuildOk(path, E, v) ==
    CASE path = "Result(const T&)" -> Result_from_value(E, v)
      [] path = "Result(T&&)" -> Result_from_rvalue(E, v)
      [] path = "Result(SuccessTag, const T&)" -> Result_SuccessTag(E, v)
      [] path = "ok(const T&)" -> Result_ok(E, v)
      [] path = "ok(T&&)" -> Result_ok_rvalue(E, v)
      [] path = "makeOk" -> makeOk(E, v)

BuildError(path, E, e) ==
    CASE path = "Result(E)" -> Result_from_error(E, e)
      [] path = "Result(ErrorTag, E)" -> Result_ErrorTag(E, e)
      [] path = "error" -> Result_error(E, e)
      [] path = "makeError" -> makeError(E, e)

BuildVoidOk(path, E) ==
    CASE path = "Result()" -> ResultVoid_default(E)
      [] path = "Result(SuccessTag)" -> ResultVoid_SuccessTag(E)
      [] path = "ok" -> ResultVoid_ok(E)
      [] path = "makeOk" -> makeOkVoid(E)

BuildVoidError(path, E, e) ==
    CASE path = "Result(E)" -> ResultVoid_from_error(E, e)
      [] path = "Result(ErrorTag, E)" -> ResultVoid_ErrorTag(E, e)
      [] path = "error" -> ResultVoid_error(E, e)


\* ---------------------------------------------------- propagation macros

\* An enclosing operation is built from one macro, used n times in a row and
\* followed by a final return of ok:
\*
\*   Result<declT, E> operation() {          Result<int, E> pipeline() {
\*       RETURN_IF_ERROR(step1());               ASSIGN_OR_RETURN(auto v1, step1());
\*       ...                                     ASSIGN_OR_RETURN(auto v2, step2(v1));
\*       RETURN_IF_ERROR(stepN());               ...
\*       return Result<declT, E>::ok(..);        return Result<int, E>::ok(vN);
\*   }                                       }
\*
\*   Result<declT, E> validate() {
\*       RETURN_ERROR_IF(cond, <error identifier>);
\*       return Result<declT, E>::ok(..);
\*   }
\*
\* prog records the operation's text: the macro, the declared return type,
\* the type of the steps' Results, where the uses stand (all in the function
\* body, or each in a block nested in the previous one's), and what the
\* steps do: step failAt fails with failWith (failAt = 0: none fails).

\* The longest chain of uses.
MaxSteps == 3

NoProgram == [idiom |-> "none"]

IdleFrame == [pc |-> "idle"]

ValueTypes == {"int", "void"}

Layouts == {"flat", "nested"}

\* How the error identifier is spelled at a use of RETURN_ERROR_IF.
Spellings(E) ==
    IF E = "ErrorCode"
    THEN {"ErrorCode::INVALID_PARAMETER", "code"}
    ELSE {"TestError::DIVIDE_BY_ZERO", "code"}

\* The identifier a spelling denotes (a variable named code holds any).
Denotes(E, spelling) ==
    CASE spelling = "ErrorCode::INVALID_PARAMETER" -> {INVALID_PARAMETER}
      [] spelling = "TestError::DIVIDE_BY_ZERO" -> {1}
      [] OTHER -> ErrorIds(E)

\* -- translation

\* a ## b : the two operands are pasted as spelled; an operand of ## is not
\* macro-expanded first.
Paste(a, b) == a \o b

\* _temp_result_##__LINE__ at a use on the given line
TempName(line) == Paste("_temp_result_", "__LINE__")

\* The replacement list of RETURN_ERROR_IF(condition, error), as tokens.
RETURN_ERROR_IF_Body ==
    <<"if", "(", "condition", ")", "return",
      "decltype", "(", "error", ")", "::", "error", "(", "error", ")", ";">>

\* Macro replacement: every token that is the parameter becomes the argument.
Substitute(body, param, arg) ==
    [i \in DOMAIN body |-> IF body[i] = param THEN arg ELSE body[i]]

\* The static member functions of a type: a Result has ok and error, an
\* enumeration has none.
StaticMemberFunctions(type) ==
    IF type \in ErrorTypes THEN {} ELSE {"ok", "error"}

\* The block a use stands in: the function body is block 1.
ScopeOf(p, k) == IF p.layout = "flat" THEN 1 ELSE k

\* The use of step k stands on its own line.
LineOf(p, k) == 10 + k

\* No two uses declare the same name in the same block.
NoRedeclaration(p) ==
    \A i, j \in 1 .. p.n :
        (i < j /\ ScopeOf(p, i) = ScopeOf(p, j)) => TempName(LineOf(p, i)) # TempName(LineOf(p, j))

\* Whether the translation unit holding the operation is accepted.
WellFormed(p) ==
    CASE p.idiom = "RETURN_IF_ERROR" ->
            \* return _result; : _result has the type of the step's Result
            p.exprT = p.declT
      [] p.idiom = "ASSIGN_OR_RETURN" ->
            \* .value() exists; decltype(temp)::error(..) is what is returned
            /\ p.exprT = "int"
            /\ p.exprT = p.declT
            /\ NoRedeclaration(p)
      [] p.idiom = "RETURN_ERROR_IF" ->
            \* decltype(<arg>)::<member>(<arg>) after replacement
            LET text == Substitute(RETURN_ERROR_IF_Body, "error", p.spelling)
            IN  text[11] \in StaticMemberFunctions(p.E)

\* -- execution

\* The activation of an accepted operation, before its first statement.
\*   ip       the statement to execute next (n + 1: the final return)
\*   temp     the macro's local Result (_result, _temp_result_..) as evaluated
\*   ret      the Result the operation has returned
\*   locals   the values bound so far by ASSIGN_OR_RETURN
\*   invoked  the steps evaluated so far, in order
\*   trace    the statements executed so far, in order
Enter(p) ==
    [pc |-> IF WellFormed(p) THEN "running" ELSE "rejected",
     ip |-> 1, temp |-> NoObject, ret |-> NoObject,
     locals |-> <<>>, invoked |-> <<>>, trace |-> <<>>]

\* What step k returns.  The steps of a RETURN_IF_ERROR chain take nothing
\* and succeed with k (or with nothing); the steps of a pipeline double the
\* value they are fed, the first one producing the seed.
StepCall(p, k, input) ==
    IF k = p.failAt
    THEN IF p.exprT = "int" THEN Result_error(p.E, p.failWith)
                            ELSE ResultVoid_error(p.E, p.failWith)
    ELSE IF p.exprT = "void" THEN ResultVoid_ok(p.E)
         ELSE IF p.idiom = "RETURN_IF_ERROR" THEN Result_ok_rvalue(p.E, k)
         ELSE IF k = 1 THEN Result_ok_rvalue(p.E, p.seed)
         ELSE Result_ok_rvalue(p.E, double(input))

\* do { auto _result = (expr); if (!_result) { return _result; } } while (0)
RETURN_IF_ERROR_NoReturn(p, f) ==
    LET _result == StepCall(p, f.ip, 0)
        g == [f EXCEPT !.temp = _result,
                       !.invoked = Append(@, f.ip),
                       !.trace = Append(@, f.ip)]
    IN  [g EXCEPT !.ip = @ + 1]

RETURN_IF_ERROR(p, f) ==
    LET _result == StepCall(p, f.ip, 0)
        g == [f EXCEPT !.temp = _result,
                       !.invoked = Append(@, f.ip),
                       !.trace = Append(@, f.ip)]
    IN  IF ~operator_bool(_result)
        THEN [g EXCEPT !.ret = Copy(_result), !.pc = "returned"]
        ELSE [g EXCEPT !.ip = @ + 1]

\* auto temp = (expr);
\* if (!temp) { return decltype(temp)::error(temp.error()); }
\* var = std::move(temp).value()
ASSIGN_OR_RETURN_EvaluatedTwice(p, f) ==
    LET input == IF f.ip = 1 THEN 0 ELSE f.locals[f.ip - 1]
        temp == StepCall(p, f.ip, input)
        g == [f EXCEPT !.temp = temp,
                       !.invoked = Append(Append(@, f.ip), f.ip),
                       !.trace = Append(@, f.ip)]
    IN  IF ~operator_bool(temp)
        THEN [g EXCEPT !.ret = Result_error(temp.E, error(temp).ret), !.pc = "returned"]
        ELSE [g EXCEPT !.locals = Append(@, value(temp).ret), !.ip = @ + 1]

ASSIGN_OR_RETURN(p, f) ==
    LET input == IF f.ip = 1 THEN 0 ELSE f.locals[f.ip - 1]
        temp == StepCall(p, f.ip, input)
        g == [f EXCEPT !.temp = temp,
                       !.invoked = Append(@, f.ip),
                       !.trace = Append(@, f.ip)]
    IN  IF ~operator_bool(temp)
        THEN [g EXCEPT !.ret = Result_error(temp.E, error(temp).ret), !.pc = "returned"]
        ELSE [g EXCEPT !.locals = Append(@, value(temp).ret), !.ip = @ + 1]

\* do { if (condition) { return decltype(error)::error(error); } } while (0)
RETURN_ERROR_IF(p, f) ==
    LET g == [f EXCEPT !.trace = Append(@, f.ip)]
    IN  IF p.cond
        THEN [g EXCEPT !.ret = IF p.declT = "int" THEN Result_error(p.E, p.arg)
                                                  ELSE ResultVoid_error(p.E, p.arg),
                       !.pc = "returned"]
        ELSE [g EXCEPT !.ip = @ + 1]

\* return Result<declT, E>::ok(..);   (of the last value bound in a pipeline,
\* of the number of steps in an operation that binds nothing)
FinalReturn(p, f) ==
    [f EXCEPT !.trace = Append(@, f.ip),
              !.pc = "returned",
              !.ret = IF p.declT = "void" THEN ResultVoid_ok(p.E)
                      ELSE IF p.idiom = "ASSIGN_OR_RETURN" THEN Result_ok(p.E, f.locals[p.n])
                      ELSE Result_ok_rvalue(p.E, p.n)]

\* One operation is translated and run per behaviour.
CanBuild == frame.pc = "idle"

\* An operation made of 1..MaxSteps uses of RETURN_IF_ERROR is translated.
BuildReturnIfError ==
    \E E \in ErrorTypes, d \in ValueTypes, x \in ValueTypes, n \in 1 .. MaxSteps :
        \E k \in 0 .. n, e \in ErrorIds(E) :
            LET p == [idiom |-> "RETURN_IF_ERROR", E |-> E, declT |-> d, exprT |-> x,
                      n |-> n, failAt |-> k, failWith |-> e]
            IN  /\ CanBuild
                /\ prog' = p
                /\ frame' = Enter(p)
                /\ UNCHANGED <<objVars, codeVars, guardVars>>

\* A pipeline of 1..MaxSteps uses of ASSIGN_OR_RETURN is translated.
BuildAssignOrReturn ==
    \E E \in ErrorTypes, d \in ValueTypes, x \in ValueTypes, n \in 1 .. MaxSteps :
        \E k \in 0 .. n, e \in ErrorIds(E), l \in Layouts, v \in 1 .. MaxValue :
            LET p == [idiom |-> "ASSIGN_OR_RETURN", E |-> E, declT |-> d, exprT |-> x,
                      n |-> n, failAt |-> k, failWith |-> e, layout |-> l, seed |-> v]
            IN  /\ CanBuild
                /\ prog' = p
                /\ frame' = Enter(p)
                /\ UNCHANGED <<objVars, codeVars, guardVars>>

\* An operation with one use of RETURN_ERROR_IF is translated.
BuildReturnErrorIf ==
    \E E \in ErrorTypes, d \in ValueTypes, c \in BOOLEAN :
        \E sp \in Spellings(E) :
            \E e \in Denotes(E, sp) :
                LET p == [idiom |-> "RETURN_ERROR_IF", E |-> E, declT |-> d, n |-> 1,
                          cond |-> c, spelling |-> sp, arg |-> e]
                IN  /\ CanBuild
                    /\ prog' = p
                    /\ frame' = Enter(p)
                    /\ UNCHANGED <<objVars, codeVars, guardVars>>

\* The next macro use of the running operation is executed, whole.
ExecuteMacro ==
    /\ frame.pc = "running"
    /\ frame.ip <= prog.n
    /\ frame' = CASE prog.idiom = "RETURN_IF_ERROR" -> RETURN_IF_ERROR(prog, frame)
                  [] prog.idiom = "ASSIGN_OR_RETURN" -> ASSIGN_OR_RETURN(prog, frame)
                  [] prog.idiom = "RETURN_ERROR_IF" -> RETURN_ERROR_IF(prog, frame)
    /\ UNCHANGED <<prog, objVars, codeVars, guardVars>>

\* The final return statement of the running operation is executed.
ExecuteFinalReturn ==
    /\ frame.pc = "running"
    /\ frame.ip = prog.n + 1
    /\ frame' = FinalReturn(prog, frame)
    /\ UNCHANGED <<prog, objVars, codeVars, guardVars>>

\* ------------------------------------------------- operations on objects

\* Result<int, E> r = <one of the success construction paths>(v);
ConstructOk ==
    \E E \in ErrorTypes, path \in OkPaths, v \in Values :
        /\ r' = BuildOk(path, E, v)
        /\ last' = [op |-> "ok", path |-> path, arg |-> v]
        /\ obs' = NoObs
        /\ s' = NoObject
        /\ UNCHANGED <<idiomVars, codeVars, guardVars>>

\* Result<int, E> r = <one of the error construction paths>(e);
ConstructError ==
    \E E \in ErrorTypes, path \in ErrorPaths :
        \E e \in ErrorIds(E) :
            /\ r' = BuildError(path, E, e)
            /\ last' = [op |-> "error", path |-> path, arg |-> e]
            /\ obs' = NoObs
            /\ s' = NoObject
            /\ UNCHANGED <<idiomVars, codeVars, guardVars>>

\* Result<void, E> r = <one of the success construction paths>();
ConstructVoidOk ==
    \E E \in ErrorTypes, path \in VoidOkPaths :
        /\ r' = BuildVoidOk(path, E)
        /\ last' = [op |-> "void_ok", path |-> path]
        /\ obs' = NoObs
        /\ s' = NoObject
        /\ UNCHANGED <<idiomVars, codeVars, guardVars>>

\* Result<void, E> r = <one of the error construction paths>(e);
ConstructVoidError ==
    \E E \in ErrorTypes, path \in VoidErrorPaths :
        \E e \in ErrorIds(E) :
            /\ r' = BuildVoidError(path, E, e)
            /\ last' = [op |-> "void_error", path |-> path, arg |-> e]
            /\ obs' = NoObs
            /\ s' = NoObject
            /\ UNCHANGED <<idiomVars, codeVars, guardVars>>

\* auto s = r;   (implicit copy constructor)
CopyConstruct ==
    /\ r # NoObject
    /\ s' = Copy(r)
    /\ r' = r
    /\ last' = [op |-> "copy", src |-> r]
    /\ obs' = NoObs
    /\ UNCHANGED <<idiomVars, codeVars, guardVars>>

\* auto s = std::move(r);   (implicit move constructor)
MoveConstruct ==
    /\ r # NoObject
    /\ s' = Move(r)
    /\ r' \in MovedFrom(r)
    /\ last' = [op |-> "move", src |-> r]
    /\ obs' = NoObs
    /\ UNCHANGED <<idiomVars, codeVars, guardVars>>

\* r = s;   (implicit copy assignment of a whole Result of the same type)
CopyAssign ==
    /\ r # NoObject /\ s # NoObject
    /\ SameType(r, s) /\ InValues(s)
    /\ r' = Copy(s)
    /\ s' = s
    /\ last' = [op |-> "copy_assign", src |-> s]
    /\ obs' = NoObs
    /\ UNCHANGED <<idiomVars, codeVars, guardVars>>

\* r = std::move(s);   (implicit move assignment)
MoveAssign ==
    /\ r # NoObject /\ s # NoObject
    /\ SameType(r, s) /\ InValues(s)
    /\ r' = Move(s)
    /\ s' \in MovedFrom(s)
    /\ last' = [op |-> "move_assign", src |-> s]
    /\ obs' = NoObs
    /\ UNCHANGED <<idiomVars, codeVars, guardVars>>

\* r.value() = v;   (value() & hands out a mutable reference to value_)
WriteThroughValue ==
    \E v \in Values :
        /\ r # NoObject /\ r.T = "int"
        /\ r' = [r EXCEPT !.value_ = v]
        /\ last' = [op |-> "write", arg |-> v]
        /\ obs' = NoObs
        /\ s' = s
        /\ UNCHANGED <<idiomVars, codeVars, guardVars>>

\* r.value();
CallValue ==
    /\ r # NoObject /\ r.T = "int"
    /\ obs' = [op |-> "value", self |-> r, got |-> value(r)]
    /\ UNCHANGED <<r, s, last>>
    /\ UNCHANGED <<idiomVars, codeVars, guardVars>>

\* r.error();
CallError ==
    /\ r # NoObject
    /\ obs' = [op |-> "error", self |-> r, got |-> error(r)]
    /\ UNCHANGED <<r, s, last>>
    /\ UNCHANGED <<idiomVars, codeVars, guardVars>>

\* r.valueOr(d);   (the const& overload: r is not changed)
CallValueOr ==
    \E d \in Values :
        /\ r # NoObject /\ r.T = "int"
        /\ obs' = [op |-> "valueOr", self |-> r, arg |-> d, got |-> valueOr(r, d)]
        /\ UNCHANGED <<r, s, last>>
        /\ UNCHANGED <<idiomVars, codeVars, guardVars>>

\* std::move(r).valueOr(d);   (the && overload: value_ is moved out of r)
CallValueOrRvalue ==
    \E d \in Values :
        /\ r # NoObject /\ r.T = "int"
        /\ obs' = [op |-> "valueOr", self |-> r, arg |-> d, got |-> valueOr(r, d)]
        /\ r' \in (IF r.hasValue_ THEN MovedFrom(r) ELSE {r})
        /\ last' = [op |-> "moved_out"]
        /\ s' = s
        /\ UNCHANGED <<idiomVars, codeVars, guardVars>>

\* auto s = r.map(f);
CallMap ==
    \E f \in MapCallables :
        /\ r # NoObject /\ r.T = "int"
        /\ s' = map(r, f).res
        /\ obs' = [op |-> "map", self |-> r, f |-> f, calls |-> map(r, f).calls]
        /\ last' = [op |-> "map"]
        /\ r' = r
        /\ UNCHANGED <<idiomVars, codeVars, guardVars>>

\* auto s = r.andThen(divide);
CallAndThen ==
    /\ r # NoObject /\ r.T = "int"
    /\ s' = andThen(r).res
    /\ obs' = [op |-> "andThen", self |-> r, calls |-> andThen(r).calls]
    /\ last' = [op |-> "andThen"]
    /\ r' = r
    /\ UNCHANGED <<idiomVars, codeVars, guardVars>>

\* ------------------------------------------------------------ ErrorCode

\* enum class ErrorCode : int16_t: the enumerators and their values.
ErrorCode ==
    [
 OK |-> 0, SUCCESS |-> 0, UNKNOWN_ERROR |-> 1, NOT_INITIALIZED |-> 2,
     ALREADY_INITIALIZED |-> 3, INVALID_PARAMETER |-> 4, INVALID_STATE |-> 5,
     NOT_SUPPORTED |-> 6, NOT_IMPLEMENTED |-> 7, BUSY |-> 8,
     WOULD_BLOCK |-> 9, OUT_OF_MEMORY |-> 10, RESOURCE_EXHAUSTED |-> 11,
     RESOURCE_NOT_FOUND |-> 12, RESOURCE_LOCKED |-> 13,
     RESOURCE_UNAVAILABLE |-> 14, TIMEOUT |-> 30, MUTEX_ERROR |-> 31,
     SEMAPHORE_ERROR |-> 32, DEADLOCK_DETECTED |-> 33, QUEUE_FULL |-> 34,
     QUEUE_EMPTY |-> 35, IO_ERROR |-> 50, READ_ERROR |-> 51,
     WRITE_ERROR |-> 52, PERMISSION_DENIED |-> 53, DATA_NOT_READY |-> 70,
     DATA_CORRUPTED |-> 71, CRC_ERROR |-> 72, CHECKSUM_ERROR |-> 73,
     BUFFER_OVERFLOW |-> 74, BUFFER_UNDERFLOW |-> 75, INVALID_DATA |-> 76,
     DEVICE_NOT_FOUND |-> 100, DEVICE_ERROR |-> 101, DEVICE_BUSY |-> 102,
     DEVICE_DISCONNECTED |-> 103, HARDWARE_FAILURE |-> 104,
     COMMUNICATION_ERROR |-> 200, CONNECTION_FAILED |-> 201,
     CONNECTION_LOST |-> 202, CONNECTION_REFUSED |-> 203,
     PROTOCOL_ERROR |-> 204, SEND_FAILED |-> 205, RECEIVE_FAILED |-> 206,
     STORAGE_ERROR |-> 300, STORAGE_FULL |-> 301, FILE_NOT_FOUND |-> 302,
     FILE_EXISTS |-> 303, MOUNT_FAILED |-> 304, NETWORK_ERROR |-> 400,
     NETWORK_UNREACHABLE |-> 401, HOST_UNREACHABLE |-> 402,
     DNS_FAILED |-> 403, SSL_ERROR |-> 404
    ]

\* The values that some enumerator names.
Declared == {ErrorCode[n] : n \in DOMAIN ErrorCode}

\* The range of the underlying type int16_t: every value in it is a value of
\* the enumeration, named or not.
INT16_MIN == -32768

INT16_MAX == 32767

Int16 == INT16_MIN .. INT16_MAX

\* The case labels of errorCodeToString's switch, in order, each with the
\* string it returns.
Cases ==
    <<
     [label |-> "OK", ret |-> "OK"],
     [label |-> "UNKNOWN_ERROR", ret |-> "Unknown error"],
     [label |-> "NOT_INITIALIZED", ret |-> "Not initialized"],
     [label |-> "ALREADY_INITIALIZED", ret |-> "Already initialized"],
     [label |-> "INVALID_PARAMETER", ret |-> "Invalid parameter"],
     [label |-> "INVALID_STATE", ret |-> "Invalid state"],
     [label |-> "NOT_SUPPORTED", ret |-> "Not supported"],
     [label |-> "NOT_IMPLEMENTED", ret |-> "Not implemented"],
     [label |-> "BUSY", ret |-> "Busy"],
     [label |-> "WOULD_BLOCK", ret |-> "Would block"],
     [label |-> "OUT_OF_MEMORY", ret |-> "Out of memory"],
     [label |-> "RESOURCE_EXHAUSTED", ret |-> "Resource exhausted"],
     [label |-> "RESOURCE_NOT_FOUND", ret |-> "Resource not found"],
     [label |-> "RESOURCE_LOCKED", ret |-> "Resource locked"],
     [label |-> "RESOURCE_UNAVAILABLE", ret |-> "Resource unavailable"],
     [label |-> "TIMEOUT", ret |-> "Timeout"],
     [label |-> "MUTEX_ERROR", ret |-> "Mutex error"],
     [label |-> "SEMAPHORE_ERROR", ret |-> "Semaphore error"],
     [label |-> "DEADLOCK_DETECTED", ret |-> "Deadlock detected"],
     [label |-> "QUEUE_FULL", ret |-> "Queue full"],
     [label |-> "QUEUE_EMPTY", ret |-> "Queue empty"],
     [label |-> "IO_ERROR", ret |-> "I/O error"],
     [label |-> "READ_ERROR", ret |-> "Read error"],
     [label |-> "WRITE_ERROR", ret |-> "Write error"],
     [label |-> "PERMISSION_DENIED", ret |-> "Permission denied"],
     [label |-> "DATA_NOT_READY", ret |-> "Data not ready"],
     [label |-> "DATA_CORRUPTED", ret |-> "Data corrupted"],
     [label |-> "CRC_ERROR", ret |-> "CRC error"],
     [label |-> "CHECKSUM_ERROR", ret |-> "Checksum error"],
     [label |-> "BUFFER_OVERFLOW", ret |-> "Buffer overflow"],
     [label |-> "BUFFER_UNDERFLOW", ret |-> "Buffer underflow"],
     [label |-> "INVALID_DATA", ret |-> "Invalid data"],
     [label |-> "DEVICE_NOT_FOUND", ret |-> "Device not found"],
     [label |-> "DEVICE_ERROR", ret |-> "Device error"],
     [label |-> "DEVICE_BUSY", ret |-> "Device busy"],
     [label |-> "DEVICE_DISCONNECTED", ret |-> "Device disconnected"],
     [label |-> "HARDWARE_FAILURE", ret |-> "Hardware failure"],
     [label |-> "COMMUNICATION_ERROR", ret |-> "Communication error"],
     [label |-> "CONNECTION_FAILED", ret |-> "Connection failed"],
     [label |-> "CONNECTION_LOST", ret |-> "Connection lost"],
     [label |-> "CONNECTION_REFUSED", ret |-> "Connection refused"],
     [label |-> "PROTOCOL_ERROR", ret |-> "Protocol error"],
     [label |-> "SEND_FAILED", ret |-> "Send failed"],
     [label |-> "RECEIVE_FAILED", ret |-> "Receive failed"],
     [label |-> "STORAGE_ERROR", ret |-> "Storage error"],
     [label |-> "STORAGE_FULL", ret |-> "Storage full"],
     [label |-> "FILE_NOT_FOUND", ret |-> "File not found"],
     [label |-> "FILE_EXISTS", ret |-> "File exists"],
     [label |-> "MOUNT_FAILED", ret |-> "Mount failed"],
     [label |-> "NETWORK_ERROR", ret |-> "Network error"],
     [label |-> "NETWORK_UNREACHABLE", ret |-> "Network unreachable"],
     [label |-> "HOST_UNREACHABLE", ret |-> "Host unreachable"],
     [label |-> "DNS_FAILED", ret |-> "DNS failed"],
     [label |-> "SSL_ERROR", ret |-> "SSL error"]
    >>

\* switch (code) over the given case labels: the first label whose
\* enumerator has the value of code decides; otherwise the default.
Switch(cases, default, c) ==
    LET hit == {i \in DOMAIN cases : ErrorCode[cases[i].label] = c}
    IN  IF hit = {}
        THEN default
        ELSE cases[CHOOSE i \in hit : \A j \in hit : i <= j].ret

errorCodeToString_MissingCase(c) ==
    Switch(SubSeq(Cases, 1, Len(Cases) - 1), "Unknown error code", c)

errorCodeToString(c) == Switch(Cases, "Unknown error code", c)

isSuccess_NonNegative(c) == c >= ErrorCode.OK

isSuccess(c) == c = ErrorCode.OK

\* common::isError(ErrorCode), the overload on codes (isError above is the
\* Result's member).
isError_ErrorCode(c) == c # ErrorCode.OK

NoCode == [how |-> "none"]

NoAnswer == [text |-> <<>>, success |-> <<>>, error |-> <<>>]

\* auto c = ErrorCode::<name>;
UseEnumerator ==
    /\ code = NoCode
    /\ \E n \in DOMAIN ErrorCode :
          code' = [how |-> "enumerator", name |-> n, v |-> ErrorCode[n]]
    /\ answer' = NoAnswer
    /\ UNCHANGED <<objVars, idiomVars, guardVars>>

\* auto c = static_cast<ErrorCode>(n);
StaticCast ==
    /\ code = NoCode
    /\ \E n \in Int16 : code' = [how |-> "static_cast", v |-> n]
    /\ answer' = NoAnswer
    /\ UNCHANGED <<objVars, idiomVars, guardVars>>

CallErrorCodeToString ==
    /\ code # NoCode /\ answer.text = <<>>
    /\ answer' = [answer EXCEPT !.text = <<errorCodeToString(code.v)>>]
    /\ UNCHANGED <<code, objVars, idiomVars, guardVars>>

CallIsSuccess ==
    /\ code # NoCode /\ answer.success = <<>>
    /\ answer' = [answer EXCEPT !.success = <<isSuccess(code.v)>>]
    /\ UNCHANGED <<code, objVars, idiomVars, guardVars>>

CallIsError ==
    /\ code # NoCode /\ answer.error = <<>>
    /\ answer' = [answer EXCEPT !.error = <<isError_ErrorCode(code.v)>>]
    /\ UNCHANGED <<code, objVars, idiomVars, guardVars>>

\* ----------------------------------------------------------- ScopeGuard

\* The most guards built from one cleanup function.
MaxGuards == 4

\* A guard's func_ is the cleanup function it was given, or what moving out
\* of it left behind.
MovedFromCallable == {"cleanup", "moved_from"}

\* explicit ScopeGuard(F&& func): func_(std::forward<F>(func)), active_(true)
ScopeGuard_ctor == [func_ |-> "cleanup", active_ |-> TRUE]

\* void dismiss() noexcept { active_ = false; }
dismiss(g) == [g EXCEPT !.active_ = FALSE]

\* ~ScopeGuard(): if (active_) func_();  -- the calls the destructor makes.
ScopeGuard_dtor(g) == IF g.active_ THEN <<g.func_>> ELSE <<>>

ScopeGuard_move_NoDismiss(other) ==
    {[new |-> [func_ |-> other.func_, active_ |-> other.active_],
      other |-> [other EXCEPT !.func_ = m]] : m \in MovedFromCallable}

\* ScopeGuard(ScopeGuard&& other): func_(std::move(other.func_)),
\* active_(other.active_) { other.dismiss(); }  -- the guard built and what
\* is left of other.
ScopeGuard_move(other) ==
    {[new |-> [func_ |-> other.func_, active_ |-> other.active_],
      other |-> dismiss([other EXCEPT !.func_ = m])] : m \in MovedFromCallable}

\* guards[i].obj is the i-th guard object, alive until its destructor has
\* run; holds records which guard is responsible for the cleanup: the one
\* constructed from the function, then whichever was move-constructed from
\* the responsible one.
Invocations(i, g) ==
    [k \in DOMAIN ScopeGuard_dtor(g) |->
        [guard |-> i, func_ |-> ScopeGuard_dtor(g)[k]]]

\* ScopeGuard cleanup([resource]() { ... });
ConstructGuard ==
    /\ guards = <<>>
    /\ guards' = <<[obj |-> ScopeGuard_ctor, alive |-> TRUE, holds |-> TRUE]>>
    /\ UNCHANGED <<cleanup, released, objVars, idiomVars, codeVars>>

\* auto guard = makeScopeGuard(f);  (also SCOPE_EXIT): the returned
\* temporary is constructed in place, or, where the copy is not elided,
\* moved into guard and destroyed.
MakeScopeGuard ==
    /\ guards = <<>>
    /\ \/ /\ guards' = <<[obj |-> ScopeGuard_ctor, alive |-> TRUE, holds |-> TRUE]>>
          /\ cleanup' = cleanup
       \/ \E mv \in ScopeGuard_move(ScopeGuard_ctor) :
             /\ guards' = <<[obj |-> mv.other, alive |-> FALSE, holds |-> FALSE],
                            [obj |-> mv.new, alive |-> TRUE, holds |-> TRUE]>>
             /\ cleanup' = cleanup \o Invocations(1, mv.other)
    /\ UNCHANGED <<released, objVars, idiomVars, codeVars>>

\* ScopeGuard<F> g2(std::move(g));
MoveConstructGuard ==
    /\ Len(guards) < MaxGuards
    /\ \E i \in DOMAIN guards :
          /\ guards[i].alive
          /\ \E mv \in ScopeGuard_move(guards[i].obj) :
                guards' = Append([guards EXCEPT ![i].obj = mv.other,
                                                ![i].holds = FALSE],
                                 [obj |-> mv.new, alive |-> TRUE,
                                  holds |-> guards[i].holds])
    /\ UNCHANGED <<cleanup, released, objVars, idiomVars, codeVars>>

\* g.dismiss();
Dismiss ==
    /\ \E i \in DOMAIN guards :
          /\ guards[i].alive
          /\ guards' = [guards EXCEPT ![i].obj = dismiss(@)]
          /\ released' = (released \/ guards[i].holds)
    /\ UNCHANGED <<cleanup, objVars, idiomVars, codeVars>>

\* g goes out of scope.
Destroy ==
    /\ \E i \in DOMAIN guards :
          /\ guards[i].alive
          /\ guards' = [guards EXCEPT ![i].alive = FALSE]
          /\ cleanup' = cleanup \o Invocations(i, guards[i].obj)
    /\ UNCHANGED <<released, objVars, idiomVars, codeVars>>

Init ==
    /\ r = NoObject
    /\ s = NoObject
    /\ last = [op |-> "none"]
    /\ obs = NoObs
    /\ prog = NoProgram
    /\ frame = IdleFrame
    /\ code = NoCode
    /\ answer = NoAnswer
    /\ guards = <<>>
    /\ cleanup = <<>>
    /\ released = FALSE

Next ==
    \/ ConstructOk
    \/ ConstructError
    \/ ConstructVoidOk
    \/ ConstructVoidError
    \/ CopyConstruct
    \/ MoveConstruct
    \/ CopyAssign
    \/ MoveAssign
    \/ WriteThroughValue
    \/ CallValue
    \/ CallError
    \/ CallValueOr
    \/ CallValueOrRvalue
    \/ CallMap
    \/ CallAndThen

vars == <<r, s, last, obs, prog, frame, code, answer, guards, cleanup, released>>

Spec == Init /\ [][Next]_vars

NextIdioms ==
    \/ BuildReturnIfError
    \/ BuildAssignOrReturn
    \/ BuildReturnErrorIf
    \/ ExecuteMacro
    \/ ExecuteFinalReturn

\* The operations built on the propagation macros, translated and run.
SpecIdioms == Init /\ [][NextIdioms]_vars

NextErrorCodes ==
    \/ UseEnumerator
    \/ StaticCast
    \/ CallErrorCodeToString
    \/ CallIsSuccess
    \/ CallIsError

\* The error codes, named or coerced from a number, and the three functions
\* on them.
SpecErrorCodes == Init /\ [][NextErrorCodes]_vars

NextGuards ==
    \/ ConstructGuard
    \/ MakeScopeGuard
    \/ MoveConstructGuard
    \/ Dismiss
    \/ Destroy

\* One cleanup function, the guard built for it and the guards moved from it.
SpecGuards == Init /\ [][NextGuards]_vars


\* ------------------------------------------------------ claims on objects

Exclusive(x) ==
    x # NoObject => /\ isOk(x) # isError(x)
                    /\ operator_bool(x) = isOk(x)

\* C1: every Result that construction, copy, move or assignment produces
\* (value-carrying or void, either error enumeration) answers exactly one of
\* isOk() and isError() with true, and converts to bool as isOk() says.
C1_Exclusivity == Exclusive(r) /\ Exclusive(s)

C1_Witness ==
    /\ last.op = "move_assign"
    /\ isError(r) /\ ~isOk(r) /\ r.error_ = OK
    /\ s # NoObject

\* C2: right after a success construction from v (every constructor, ok
\* overload and makeOk), isOk() is true, isError() is false and value()
\* returns v.
C2_OkRoundTrip ==
    last.op = "ok" =>
        /\ isOk(r)
        /\ ~isError(r)
        /\ value(r) = [outcome |-> "returned", ret |-> last.arg]

C2_Witness ==
    /\ last.op = "ok" /\ last.path = "makeOk" /\ last.arg = 2
    /\ obs.op = "value" /\ obs.got.ret = 2

\* C3: right after an error construction from an identifier e other than the
\* success identifier, isError() is true, isOk() is false and error() returns
\* e; for Result<int, E>, for Result<void, E>, and for E a caller's own
\* enumeration.
C3_ErrorRoundTrip ==
    (last.op \in {"error", "void_error"} /\ last.arg # StaticCastZero(r.E)) =>
        /\ isError(r)
        /\ ~isOk(r)
        /\ error(r) = [outcome |-> "returned", ret |-> last.arg]

C3_Witness ==
    /\ last.op = "void_error" /\ r.E = "TestError" /\ last.arg = 1
    /\ obs.op = "error" /\ obs.got.ret = 1

\* C4: map(f) on a success Result holding v returns ok(f(v)) and has invoked
\* f once; on an error Result carrying e it returns an error Result carrying
\* e and has not invoked f.
C4_Map ==
    obs.op = "map" =>
        /\ isOk(obs.self) =>
              /\ s = Result_ok(obs.self.E, Invoke(obs.f, obs.self.value_))
              /\ isOk(s)
              /\ obs.calls = 1
        /\ isError(obs.self) =>
              /\ isError(s)
              /\ s.error_ = obs.self.error_
              /\ obs.calls = 0

C4_Witness ==
    /\ obs.op = "map" /\ isError(obs.self) /\ obs.self.error_ = TIMEOUT
    /\ isError(s) /\ s.error_ = TIMEOUT /\ obs.calls = 0

\* C5: andThen(f) on a success Result holding v returns exactly f(v), be it
\* a success or f's own error, with f invoked once; on an error Result
\* carrying e it returns an error Result of f's return type carrying e and
\* has not invoked f.
C5_AndThen ==
    obs.op = "andThen" =>
        /\ isOk(obs.self) =>
              /\ s = divide(obs.self.E, obs.self.value_)
              /\ obs.calls = 1
        /\ isError(obs.self) =>
              /\ isError(s)
              /\ s.T = "int" /\ s.E = obs.self.E
              /\ s.error_ = obs.self.error_
              /\ obs.calls = 0

C5_Witness ==
    /\ obs.op = "andThen" /\ isOk(obs.self) /\ obs.self.value_ = 0
    /\ isError(s) /\ s.error_ = INVALID_PARAMETER /\ obs.calls = 1

\* C6: valueOr(d) returns normally, with the held value when the Result is a
\* success and with d when it is an error, and leaves the Result's tag and
\* error identifier as they were.
C6_ValueOr ==
    obs.op = "valueOr" =>
        /\ obs.got.outcome = "returned"
        /\ isOk(obs.self) => obs.got.ret = obs.self.value_
        /\ isError(obs.self) => obs.got.ret = obs.arg
        /\ r.hasValue_ = obs.self.hasValue_
        /\ r.error_ = obs.self.error_

C6_Witness ==
    /\ obs.op = "valueOr" /\ isError(obs.self)
    /\ obs.arg = 3 /\ obs.self.value_ = 0 /\ obs.got.ret = 3

WrongSideValue == obs.op = "value" /\ isError(obs.self)

WrongSideError == obs.op = "error" /\ isOk(obs.self)

\* C7 as claimed: value() on an error Result, and error() on a success
\* Result, end in a trap and hand nothing back to the caller.
C7_WrongSideTraps ==
    (WrongSideValue \/ WrongSideError) => obs.got.outcome = "trap"

\* C7 as the code has it: a wrong-side access returns normally and leaves the
\* Result as it was.  value() on an error Result returns the content of the
\* value slot, which is the value-initialised T when the Result comes
\* straight from an error construction; error() on a success Result returns
\* the success identifier.
C7_WrongSideReturns ==
    /\ WrongSideValue =>
          /\ obs.got = [outcome |-> "returned", ret |-> obs.self.value_]
          /\ last.op = "error" => obs.got.ret = ValueInit
          /\ r = obs.self
    /\ WrongSideError =>
          /\ obs.got = [outcome |-> "returned", ret |-> StaticCastZero(obs.self.E)]
          /\ r = obs.self

C7_Witness ==
    /\ WrongSideValue
    /\ last.op = "error" /\ last.arg = TIMEOUT
    /\ obs.got = [outcome |-> "returned", ret |-> 0]


\* ------------------------------------------------------- claims on macros

Last(seq) == seq[Len(seq)]

\* A use of RETURN_IF_ERROR was the last statement executed.
AfterReturnIfError ==
    /\ prog.idiom = "RETURN_IF_ERROR"
    /\ frame.pc \in {"running", "returned"}
    /\ frame.trace # <<>>
    /\ Last(frame.trace) <= prog.n

\* C8: after RETURN_IF_ERROR on a Result that is an error carrying e, the
\* enclosing operation has returned a Result of its declared type carrying
\* e, and no later statement has executed or ever executes; after
\* RETURN_IF_ERROR on a success Result the operation has not returned and
\* stands at the next statement.  For Result<int, E> and Result<void, E>.
C8_ReturnIfError ==
    /\ AfterReturnIfError =>
          LET k == Last(frame.trace)
          IN  IF isError(frame.temp)
              THEN /\ frame.pc = "returned"
                   /\ isError(frame.ret)
                   /\ frame.ret.T = prog.declT /\ frame.ret.E = prog.E
                   /\ frame.ret.error_ = prog.failWith
                   /\ frame.ip = k
              ELSE /\ frame.pc = "running"
                   /\ frame.ret = NoObject
                   /\ frame.ip = k + 1
    /\ (prog.idiom = "RETURN_IF_ERROR" /\ prog.failAt # 0) =>
          \A i \in DOMAIN frame.trace : frame.trace[i] <= prog.failAt

C8_Witness ==
    /\ AfterReturnIfError
    /\ prog.exprT = "void" /\ prog.n = 3 /\ prog.failAt = 2
    /\ frame.pc = "returned" /\ frame.ret = ResultVoid_error(prog.E, TIMEOUT)
    /\ frame.trace = <<1, 2>>

\* seed * 2^(k-1): what step k of an unfailing pipeline produces
RECURSIVE Doubled(_, _)
Doubled(seed, k) == IF k = 1 THEN seed ELSE 2 * Doubled(seed, k - 1)

\* A pipeline whose steps and declared return type are all Result<int, E>.
IsPipeline ==
    /\ prog.idiom = "ASSIGN_OR_RETURN"
    /\ prog.exprT = "int" /\ prog.declT = "int"

\* What C9 says of a pipeline that has returned.
PipelineOutcome ==
    IF prog.failAt # 0
    THEN /\ frame.ret = Result_error(prog.E, prog.failWith)
         /\ frame.invoked = [i \in 1 .. prog.failAt |-> i]
         /\ frame.trace = [i \in 1 .. prog.failAt |-> i]
    ELSE /\ frame.locals = [i \in 1 .. prog.n |-> Doubled(prog.seed, i)]
         /\ frame.ret = Result_ok(prog.E, Doubled(prog.seed, prog.n))
         /\ frame.invoked = [i \in 1 .. prog.n |-> i]

\* C9: an operation that chains step1..stepN with ASSIGN_OR_RETURN, each
\* step fed the value bound by the one before, runs; if step k is the first
\* to fail, with X, it returns error(X) and steps k+1..N are not invoked; if
\* none fails every value is bound and it returns ok of the last one.
C9_AssignOrReturnChain ==
    IsPipeline =>
        /\ frame.pc # "rejected"
        /\ frame.pc = "returned" => PipelineOutcome

\* The chains that are accepted behave as C9 says: those with a single use,
\* and those whose uses each stand in a block of their own.
AcceptedChainsPropagate ==
    (IsPipeline /\ frame.pc = "returned") => PipelineOutcome

AcceptedChainReturnsOk4 ==
    /\ IsPipeline /\ prog.layout = "nested" /\ prog.n = 3 /\ prog.failAt = 0
    /\ prog.seed = 1
    /\ frame.pc = "returned" /\ frame.ret = Result_ok(prog.E, 4)
    /\ frame.locals = <<1, 2, 4>>

\* C10: at RETURN_ERROR_IF(c, e) with e an error identifier, the operation
\* runs; if c holds it returns at once an error Result of its declared type
\* carrying e, and if c does not hold it goes on to the next statement.
C10_ReturnErrorIf ==
    prog.idiom = "RETURN_ERROR_IF" =>
        /\ frame.pc # "rejected"
        /\ (frame.pc = "returned" /\ prog.cond) =>
              /\ isError(frame.ret)
              /\ frame.ret.T = prog.declT
              /\ frame.ret.error_ = prog.arg
              /\ frame.trace = <<1>>
        /\ (frame.pc = "returned" /\ ~prog.cond) => frame.trace = <<1, 2>>


\* The macro uses among the statements executed (the final return is
\* statement n + 1).
MacroUses(tr) == SelectSeq(tr, LAMBDA i : i <= prog.n)

Occurrences(seq, x) == Cardinality({i \in DOMAIN seq : seq[i] = x})

\* C11: every executed use of RETURN_IF_ERROR(expr) or ASSIGN_OR_RETURN(var,
\* expr) has evaluated expr once, whether it went on or returned: the steps
\* evaluated are the uses executed, in order, none twice; and the identifier
\* a use propagates is the one that evaluation produced.
C11_SingleEvaluation ==
    (prog.idiom \in {"RETURN_IF_ERROR", "ASSIGN_OR_RETURN"}
        /\ frame.pc \in {"running", "returned"}) =>
        /\ frame.invoked = MacroUses(frame.trace)
        /\ \A k \in 1 .. prog.n : Occurrences(frame.invoked, k) <= 1
        /\ (frame.pc = "returned" /\ Last(frame.trace) <= prog.n) =>
              /\ isError(frame.temp)
              /\ frame.temp.error_ = prog.failWith
              /\ isError(frame.ret)
              /\ frame.ret.error_ = frame.temp.error_

C11_Witness ==
    /\ prog.idiom = "ASSIGN_OR_RETURN" /\ prog.n = 3 /\ prog.failAt = 2
    /\ prog.failWith = TIMEOUT
    /\ frame.pc = "returned"
    /\ frame.invoked = <<1, 2>>
    /\ frame.ret = Result_error(prog.E, TIMEOUT)

\* C12: zero is never a real failure: a Result obtained through any public
\* construction path (ok, error(e) with any identifier e, the tag
\* constructors, makeOk/makeError, copy or move) that answers isError() does
\* not carry the success identifier, numeric zero.
C12_ZeroNeverFailure ==
    \A x \in {r, s} :
        (x # NoObject /\ isError(x)) => error(x).ret # StaticCastZero(x.E)

\* C13: right after auto s = std::move(r), s has the tag the source had
\* before the move and its value (success) or its error identifier (error),
\* the move being one step; and the moved-from source r still answers
\* exactly one of isOk() and isError().
C13_MoveTransfer ==
    last.op = "move" =>
        /\ s # NoObject /\ SameType(s, last.src)
        /\ isOk(s) = isOk(last.src)
        /\ isError(s) = isError(last.src)
        /\ (isOk(s) /\ s.T = "int") => value(s).ret = value(last.src).ret
        /\ isError(s) => error(s).ret = error(last.src).ret
        /\ Exclusive(s)
        /\ r # NoObject /\ Exclusive(r)

C13_Witness ==
    /\ last.op = "move"
    /\ last.src = Result_error("ErrorCode", TIMEOUT)
    /\ isError(s) /\ error(s).ret = TIMEOUT
    /\ isError(r)

C13_WitnessOk ==
    /\ last.op = "move"
    /\ last.src = Result_ok("ErrorCode", MaxValue)
    /\ isOk(s) /\ value(s).ret = MaxValue
    /\ isOk(r) /\ r.value_ # MaxValue

\* C14: errorCodeToString answers for every value of the underlying type:
\* a declared ErrorCode gets a non-empty string that is not "Unknown error
\* code", and a value no enumerator names (9999 for one) gets exactly
\* "Unknown error code".
C14_ErrorCodeToStringTotal ==
    /\ (code # NoCode /\ answer.text = <<>>) => ENABLED CallErrorCodeToString
    /\ answer.text # <<>> =>
          /\ Len(answer.text) = 1
          /\ code.v \in Declared =>
                answer.text[1] # "" /\ answer.text[1] # "Unknown error code"
          /\ code.v \notin Declared => answer.text[1] = "Unknown error code"

C14_Witness ==
    /\ code = [how |-> "static_cast", v |-> 9999]
    /\ answer.text = <<"Unknown error code">>

C14_WitnessDeclared ==
    /\ code.how = "enumerator" /\ code.name = "SSL_ERROR"
    /\ answer.text = <<"SSL error">>

\* C15: for every value of the underlying type, named by an enumerator or
\* coerced from a number, isSuccess and isError both answer, exactly one of
\* them with true, and isSuccess answers true exactly for the value zero (OK
\* and its alias SUCCESS).
C15_SuccessXorError ==
    /\ (code # NoCode /\ answer.success = <<>>) => ENABLED CallIsSuccess
    /\ (code # NoCode /\ answer.error = <<>>) => ENABLED CallIsError
    /\ answer.success # <<>> => (answer.success[1] <=> code.v = 0)
    /\ (answer.success # <<>> /\ answer.error # <<>>) =>
          answer.success[1] # answer.error[1]
    /\ (code # NoCode /\ code.how = "enumerator" /\ answer.success # <<>>) =>
          (answer.success[1] <=> code.name \in {"OK", "SUCCESS"})

C15_Witness ==
    /\ code = [how |-> "static_cast", v |-> 9999]
    /\ answer.success = <<FALSE>> /\ answer.error = <<TRUE>>

C15_WitnessSuccess ==
    /\ code.how = "enumerator" /\ code.name = "SUCCESS"
    /\ answer.success = <<TRUE>> /\ answer.error = <<FALSE>>

\* C16: over every sequence of construct, move-construct, dismiss and
\* destroy on a guard and the guards moved from it, the cleanup function is
\* invoked at most once: once, by the destructor of the guard responsible
\* for it, if no dismiss() reached the responsible guard, and never if one
\* did; a moved-from guard is inactive and never invokes it, and the guard
\* moved from a dismissed guard is dismissed.
C16_CleanupAtMostOnce ==
    /\ Len(cleanup) <= 1
    /\ \A k \in DOMAIN cleanup :
          /\ guards[cleanup[k].guard].holds
          /\ ~guards[cleanup[k].guard].alive
          /\ cleanup[k].func_ = "cleanup"
    /\ \A i \in DOMAIN guards :
          /\ (guards[i].holds /\ guards[i].alive) => cleanup = <<>>
          /\ (guards[i].holds /\ ~guards[i].alive) =>
                Len(cleanup) = IF released THEN 0 ELSE 1
          /\ ~guards[i].holds => ~guards[i].obj.active_
          /\ guards[i].holds => (guards[i].obj.active_ <=> ~released)

AllDestroyed == \A i \in DOMAIN guards : ~guards[i].alive

C16_Witness ==
    /\ Len(guards) = MaxGuards /\ AllDestroyed
    /\ guards[MaxGuards].holds /\ ~released
    /\ cleanup = <<[guard |-> MaxGuards, func_ |-> "cleanup"]>>

C16_WitnessDismissed ==
    /\ Len(guards) = MaxGuards /\ AllDestroyed
    /\ guards[MaxGuards].holds /\ released
    /\ cleanup = <<>>

=============================================================================
